---- MODULE Spec2Model ----
(***************************************************************************)
(* Model of merge-logs.py: the walk over the history of the analytics log, *)
(* the per-line parse, the first-seen-wins merge into all_events, the      *)
(* counters, and the exit paths of main().                                 *)
(***************************************************************************)
EXTENDS Integers, Sequences, FiniteSets, TLC

\* Bounds of the model.
MaxRevs == 2
MaxLines == 3
MaxNLines == 3

----------------------------------------------------------------------------
\* Python values as json.loads builds them.  Every value has the same shape.
PyStr(s) == [t |-> "str", s |-> s, n |-> 0]
PyInt(n) == [t |-> "int", s |-> "", n |-> n]
PyFloat(n) == [t |-> "float", s |-> "", n |-> n]
PyBool(n) == [t |-> "bool", s |-> "", n |-> n]
EmptyList == [t |-> "list", s |-> "", n |-> 0]

\* JSON literals as they stand in a line of text.
StrLit(s) == [t |-> "str", s |-> s]
NumLit(s) == [t |-> "num", s |-> s]
TrueLit == [t |-> "true", s |-> "true"]
ListLit == [t |-> "list", s |-> "[]"]
NoLit == [t |-> "none", s |-> ""]

\* A line of text: ws leading blanks, then nothing, malformed text, one
\* scalar or array literal, or an object with members in textual order.
BlankLine(w) == [ws |-> w, k |-> "none", lit |-> NoLit, members |-> <<>>]
BadLine(w) == [ws |-> w, k |-> "bad", lit |-> NoLit, members |-> <<>>]
ScalarLine(w, l) == [ws |-> w, k |-> "scalar", lit |-> l, members |-> <<>>]
ObjectLine(w, ms) == [ws |-> w, k |-> "object", lit |-> NoLit, members |-> ms]
Member(name, l) == [name |-> name, lit |-> l]

\* The number a numeric literal denotes (json's int and float parsers).
NumValue(s) ==
  CASE s = "0" -> PyInt(0)
    [] s = "1" -> PyInt(1)
    [] s = "2" -> PyInt(2)
    [] s = "0.0" -> PyFloat(0)
    [] s = "1.0" -> PyFloat(1)
    [] s = "1e0" -> PyFloat(1)
    [] s = "2.0" -> PyFloat(2)

\* The Python value of a literal.
LitValue(l) ==
  CASE l.t = "str" -> PyStr(l.s)
    [] l.t = "num" -> NumValue(l.s)
    [] l.t = "true" -> PyBool(1)
    [] l.t = "list" -> EmptyList

\* int.__repr__ and float.__repr__ on the modelled range.
NumText(v) ==
  CASE v.t = "int" /\ v.n = 0 -> "0"
    [] v.t = "int" /\ v.n = 1 -> "1"
    [] v.t = "int" /\ v.n = 2 -> "2"
    [] v.t = "float" /\ v.n = 0 -> "0.0"
    [] v.t = "float" /\ v.n = 1 -> "1.0"
    [] v.t = "float" /\ v.n = 2 -> "2.0"

\* A writer that drops the fraction of a whole float.
ValueLitNoFraction(v) ==
  CASE v.t = "str" -> StrLit(v.s)
    [] v.t \in {"int", "float"} -> NumLit(NumText([t |-> "int", s |-> "", n |-> v.n]))
    [] v.t = "bool" -> TrueLit
    [] v.t = "list" -> ListLit

\* The literal json.dumps writes for a value.
ValueLit(v) ==
  CASE v.t = "str" -> StrLit(v.s)
    [] v.t \in {"int", "float"} -> NumLit(NumText(v))
    [] v.t = "bool" -> TrueLit
    [] v.t = "list" -> ListLit

----------------------------------------------------------------------------
\* A dict is a sequence of [name, value] entries, names distinct, in
\* insertion order.
HasName(d, name) == \E i \in 1..Len(d) : d[i].name = name

\* d[name] = v : a present name keeps its place and takes the new value.
DictSet(d, name, v) ==
  IF HasName(d, name)
    THEN [i \in 1..Len(d) |->
            IF d[i].name = name THEN [name |-> name, value |-> v] ELSE d[i]]
    ELSE Append(d, [name |-> name, value |-> v])

RECURSIVE DictOfMembers(_, _)
DictOfMembers(ms, d) ==
  IF ms = <<>> THEN d
  ELSE DictOfMembers(Tail(ms), DictSet(d, Head(ms).name, LitValue(Head(ms).lit)))

\* json.loads(line): ok is FALSE where it raises JSONDecodeError.
JsonLoads(line) ==
  CASE line.k \in {"none", "bad"} -> [ok |-> FALSE, isDict |-> FALSE, value |-> PyStr(""), dict |-> <<>>]
    [] line.k = "scalar" -> [ok |-> TRUE, isDict |-> FALSE, value |-> LitValue(line.lit), dict |-> <<>>]
    [] line.k = "object" -> [ok |-> TRUE, isDict |-> TRUE, value |-> PyStr(""),
                             dict |-> DictOfMembers(line.members, <<>>)]

\* json.dumps(event) for a dict.
JsonDumps(d) ==
  ObjectLine(0, [i \in 1..Len(d) |-> Member(d[i].name, ValueLit(d[i].value))])

\* event.get(name, default)
Get(d, name, default) ==
  IF HasName(d, name)
    THEN (CHOOSE e \in {d[i] : i \in 1..Len(d)} : e.name = name).value
    ELSE default

EventKey(event) ==
  <<Get(event, "event", PyStr("")), Get(event, "user_id", PyStr("")), Get(event, "time", PyInt(0))>>

IsNumber(v) == v.t \in {"int", "float", "bool"}
Hashable(v) == v.t # "list"
KeyHashable(key) == \A i \in 1..3 : Hashable(key[i])

\* Python's == on the modelled values.
PyEq(a, b) ==
  \/ IsNumber(a) /\ IsNumber(b) /\ a.n = b.n
  \/ a.t = "str" /\ b.t = "str" /\ a.s = b.s

KeyEq(k1, k2) == \A i \in 1..3 : PyEq(k1[i], k2[i])

\* A lookup that tells 0 from 0.0 and True from 1, as a typed comparison would.
ContainsExact(store, key) == \E i \in 1..Len(store) : store[i].key = key

\* event_key in all_events
Contains(store, key) == \E i \in 1..Len(store) : KeyEq(store[i].key, key)

----------------------------------------------------------------------------
\* str.strip() of a line, and the test "not line.strip()".
StripLine(line) == [line EXCEPT !.ws = 0]
IsBlank(line) == StripLine(line).k = "none"

RECURSIVE DropLeadingBlank(_)
DropLeadingBlank(ls) ==
  IF ls = <<>> THEN <<>>
  ELSE IF IsBlank(Head(ls)) THEN DropLeadingBlank(Tail(ls)) ELSE ls

RECURSIVE DropTrailingBlank(_)
DropTrailingBlank(ls) ==
  IF ls = <<>> THEN <<>>
  ELSE IF IsBlank(ls[Len(ls)]) THEN DropTrailingBlank(SubSeq(ls, 1, Len(ls) - 1)) ELSE ls

\* content.strip().split("\n"), the content given as its lines: blank lines
\* at either end go with the surrounding whitespace, the first line loses its
\* leading blanks, and an all-blank content splits into one empty string.
StripSplit(ls) ==
  LET core == DropTrailingBlank(DropLeadingBlank(ls))
  IN IF core = <<>> THEN <<BlankLine(0)>>
     ELSE <<StripLine(Head(core))>> \o Tail(core)

RECURSIVE Reversed(_)
Reversed(s) == IF s = <<>> THEN <<>> ELSE Append(Reversed(Tail(s)), Head(s))

----------------------------------------------------------------------------
\* The lines a snapshot may hold.
LnBlank == BlankLine(1)
LnGarbage == BadLine(0)
LnNumber == ScalarLine(0, NumLit("1"))
LnUnhashable == ObjectLine(0, <<Member("event", ListLit)>>)
LnA1 == ObjectLine(0, <<Member("event", StrLit("x"))>>)
LnA2 == ObjectLine(1, <<Member("time", NumLit("0.0")), Member("event", StrLit("y")),
                        Member("user_id", StrLit("")), Member("event", StrLit("x"))>>)
LnB1 == ObjectLine(0, <<Member("event", StrLit("y")), Member("user_id", TrueLit),
                        Member("time", NumLit("1e0"))>>)
LineTexts == {LnBlank, LnGarbage, LnNumber, LnUnhashable, LnA1, LnA2, LnB1}

SeqsUpTo(S, n) == UNION {[1..m -> S] : m \in 0..n}

\* What run_command returns for "git show": None, or the text as its lines.
None == [ok |-> FALSE, lines |-> <<>>]
Text(ls) == [ok |-> TRUE, lines |-> ls]
Contents == {None} \cup {Text(ls) : ls \in SeqsUpTo(LineTexts, MaxLines)}

\* content.strip().split("\n") of every snapshot that is not None, line 112
SplitContents == {StripSplit(c.lines) : c \in Contents \ {None}}

\* What run_command returns for "git log": None, or the hashes newest first.
\* Revisions are named by their age rank, 1 the oldest.
LogOutputs == {None} \cup {Text([i \in 1..n |-> n + 1 - i]) : n \in 0..MaxRevs}

\* output.strip().split("\n") of the log output; 0 names the empty string,
\* which is what splitting an empty output yields.
SplitHashes(hs) == IF hs = <<>> THEN <<0>> ELSE hs

\* get_file_commits
GetFileCommits(output) == IF ~output.ok THEN <<>> ELSE SplitHashes(output.lines)

\* The revisions taken in the order "git log" lists them.
ProcessingOrderAsListed(cs) == cs

\* reversed(commits), line 103
ProcessingOrder(cs) == Reversed(cs)

\* line_count, line 113
LineCount(ls) == Len(ls)

\* What one pass of the line loop's body does with a line, lines 117-139.
Outcome(line, store) ==
  IF IsBlank(line) THEN "blank"
  ELSE LET event == JsonLoads(line) IN
    IF ~event.ok THEN "JSONDecodeError"
    ELSE IF ~event.isDict THEN "AttributeError"
    ELSE LET event_key == EventKey(event.dict) IN
      IF ~KeyHashable(event_key) THEN "TypeError"
      ELSE IF ~Contains(store, event_key) THEN "unique"
      ELSE "duplicate"

\* An insert at the front of the store.
InsertFront(store, key, event) == <<[key |-> key, event |-> event]>> \o store

\* all_events[event_key] = event, line 133
Insert(store, key, event) == Append(store, [key |-> key, event |-> event])

\* The key under which the properties file a record: numbers that compare
\* equal are one number.
NormValue(v) == IF v.t \in {"int", "float", "bool"} THEN [t |-> "num", s |-> "", n |-> v.n] ELSE v
Field(event, name, default) ==
  IF \E i \in 1..Len(event) : event[i].name = name
    THEN event[CHOOSE i \in 1..Len(event) : event[i].name = name].value
    ELSE default
RecordKey(event) ==
  <<NormValue(Field(event, "event", PyStr(""))),
    NormValue(Field(event, "user_id", PyStr(""))),
    NormValue(Field(event, "time", PyInt(0)))>>
Filed(ldg, k) == \E i \in 1..Len(ldg) : ldg[i].key = k
\* The ledger after one more record is met at line ln of revision rev.
File(ldg, event, rev, ln) ==
  IF Filed(ldg, RecordKey(event))
    THEN [i \in 1..Len(ldg) |->
            IF ldg[i].key = RecordKey(event)
              THEN [ldg[i] EXCEPT !.seen = ldg[i].seen + 1] ELSE ldg[i]]
    ELSE Append(ldg, [key |-> RecordKey(event), event |-> event,
                      rev |-> rev, line |-> ln, seen |-> 1])

VARIABLES
  pc,               \* where main() stands
  exc,              \* the uncaught exception, "" when none
  run,              \* 1: the run over the history; 2: the run over its own output
  cloned,           \* the clone commands issued, in order
  commits,          \* get_file_commits' result
  todo,             \* what reversed(commits) has yet to yield
  commit,           \* the loop variable
  content_by_line,
  idx,              \* the next line of content_by_line
  all_events,       \* the OrderedDict, as its items in order
  n_unique, n_unique_last, n_skipped, n_skipped_last, n_lines,
  output,           \* the lines of merged-analytics.jsonl
  writes,           \* how often the output file was opened for writing
  \* history of the run, kept for the properties
  readLog,          \* the revisions git show was asked for
  absent,           \* the revisions whose snapshot was None
  nonblank,         \* non-blank lines the line loop was given
  blanks,           \* blank lines the line loop was given
  parseFailures,    \* lines that raised JSONDecodeError
  ledger,           \* per key met: the first record, where it was met, how often
  log,              \* what "git log" returned
  prevStore         \* all_events at the end of run 1

vars == <<pc, exc, run, cloned, commits, todo, commit, content_by_line, idx,
          all_events, n_unique, n_unique_last, n_skipped, n_skipped_last, n_lines,
          output, writes, readLog, absent, nonblank, blanks, parseFailures,
          ledger, log, prevStore>>

loopVars == <<commits, todo, commit, content_by_line, idx, all_events, n_unique,
              n_unique_last, n_skipped, n_skipped_last, n_lines>>
histVars == <<readLog, absent, nonblank, blanks, parseFailures, ledger, log, prevStore>>

Init ==
  /\ pc = "check"
  /\ exc = ""
  /\ run = 1
  /\ cloned = <<>>
  /\ commits = <<>>
  /\ todo = <<>>
  /\ commit = 0
  /\ content_by_line = <<>>
  /\ idx = 1
  /\ all_events = <<>>
  /\ n_unique = 0 /\ n_unique_last = 0
  /\ n_skipped = 0 /\ n_skipped_last = 0
  /\ n_lines = 0
  /\ output = <<>>
  /\ writes = 0
  /\ readLog = <<>>
  /\ absent = {}
  /\ nonblank = 0
  /\ blanks = 0
  /\ parseFailures = 0
  /\ ledger = <<>>
  /\ log = None
  /\ prevStore = <<>>

\* main, line 80, first operand: check_repo_exists()
CheckRepoExists ==
  /\ pc = "check"
  /\ \E exists \in BOOLEAN : pc' = IF exists THEN "list" ELSE "clone_ssh"
  /\ UNCHANGED <<exc, run, cloned, output, writes>>
  /\ UNCHANGED loopVars /\ UNCHANGED histVars

\* clone_repo, the SSH attempt
CloneSsh ==
  /\ pc = "clone_ssh"
  /\ cloned' = Append(cloned, "ssh")
  /\ \E ssh_result \in {None, Text(<<>>)} :
        pc' = IF ssh_result # None THEN "list" ELSE "clone_https"
  /\ UNCHANGED <<exc, run, output, writes>>
  /\ UNCHANGED loopVars /\ UNCHANGED histVars

\* clone_repo, the HTTPS attempt, and main's exit when it fails too
CloneHttps ==
  /\ pc = "clone_https"
  /\ cloned' = Append(cloned, "https")
  /\ \E https_result \in {None, Text(<<>>)} :
        pc' = IF https_result # None THEN "list" ELSE "exit1_clone"
  /\ UNCHANGED <<exc, run, output, writes>>
  /\ UNCHANGED loopVars /\ UNCHANGED histVars

\* main, lines 88-102: list the revisions and set up the store and counters
ListCommits ==
  /\ pc = "list"
  /\ \E out \in LogOutputs :
        /\ log' = out
        /\ commits' = GetFileCommits(out)
        /\ todo' = ProcessingOrder(GetFileCommits(out))
  /\ all_events' = <<>>
  /\ n_unique' = 0 /\ n_unique_last' = 0
  /\ n_skipped' = 0 /\ n_skipped_last' = 0
  /\ n_lines' = 0
  /\ pc' = "loop"
  /\ UNCHANGED <<exc, run, cloned, commit, content_by_line, idx, output, writes>>
  /\ UNCHANGED <<readLog, absent, nonblank, blanks, parseFailures, ledger, prevStore>>

\* The for statement of line 103 and the loop body down to line 115.  "git
\* show" returns None (first branch: the revision is skipped) or a text; in
\* run 2 the sole revision holds the file the first run wrote.  n_lines is
\* kept within MaxNLines.
NextCommit ==
  /\ pc = "loop"
  /\ IF todo = <<>>
       THEN /\ pc' = "finish"
            /\ UNCHANGED <<todo, commit, content_by_line, idx, n_lines, readLog, absent>>
       ELSE /\ commit' = Head(todo)
            /\ todo' = Tail(todo)
            /\ readLog' = Append(readLog, Head(todo))
            /\ \/ /\ run = 1
                  /\ None \in Contents
                  /\ absent' = absent \cup {Head(todo)}
                  /\ pc' = "loop"
                  /\ UNCHANGED <<content_by_line, idx, n_lines>>
               \/ \E lines \in (IF run = 1 THEN SplitContents ELSE {StripSplit(output)}) :
                  /\ n_lines + LineCount(lines) <= MaxNLines
                  /\ content_by_line' = lines
                  /\ n_lines' = n_lines + LineCount(lines)
                  /\ idx' = 1
                  /\ pc' = "lines"
                  /\ UNCHANGED absent
  /\ UNCHANGED <<exc, run, cloned, commits, all_events, n_unique, n_unique_last,
                 n_skipped, n_skipped_last, output, writes, nonblank, blanks,
                 parseFailures, ledger, log, prevStore>>

\* One pass of the body of the line loop, lines 116-139.
ProcessLine ==
  /\ pc = "lines"
  /\ idx <= Len(content_by_line)
  /\ \E line \in {content_by_line[idx]} :
     \E what \in {Outcome(line, all_events)} :
     \E event \in {JsonLoads(line).dict} :
        /\ pc' = IF what \in {"AttributeError", "TypeError"} THEN "crash" ELSE "lines"
        /\ exc' = IF what \in {"AttributeError", "TypeError"} THEN what ELSE exc
        /\ idx' = IF what \in {"AttributeError", "TypeError"} THEN idx ELSE idx + 1
        /\ all_events' = IF what = "unique"
                            THEN Insert(all_events, EventKey(event), event)
                            ELSE all_events
        /\ n_unique' = IF what = "unique" THEN n_unique + 1 ELSE n_unique
        /\ n_skipped' = IF what = "duplicate" THEN n_skipped + 1 ELSE n_skipped
        /\ blanks' = IF what = "blank" THEN blanks + 1 ELSE blanks
        /\ nonblank' = IF what = "blank" THEN nonblank ELSE nonblank + 1
        /\ parseFailures' = IF what = "JSONDecodeError" THEN parseFailures + 1 ELSE parseFailures
        /\ ledger' = IF ~IsBlank(line) /\ JsonLoads(line).isDict
                        THEN File(ledger, event, commit, idx) ELSE ledger
  /\ UNCHANGED <<run, cloned, commits, todo, commit, content_by_line, n_unique_last,
                 n_skipped_last, n_lines, output, writes, readLog, absent, log, prevStore>>

\* The end of the line loop and lines 140-144.
EndCommit ==
  /\ pc = "lines"
  /\ idx > Len(content_by_line)
  /\ n_unique_last' = n_unique
  /\ n_skipped_last' = n_skipped
  /\ pc' = "loop"
  /\ UNCHANGED <<exc, run, cloned, commits, todo, commit, content_by_line, idx,
                 all_events, n_unique, n_skipped, n_lines, output, writes>>
  /\ UNCHANGED histVars

\* The lines the writer puts in the file, lines 156-157.
Written(store) == [i \in 1..Len(store) |-> JsonDumps(store[i].event)]

\* Lines 145-159: the totals, the empty-result exit, the write.
Finish ==
  /\ pc = "finish"
  /\ IF all_events = <<>>
       THEN /\ pc' = "exit1_empty"
            /\ UNCHANGED <<output, writes>>
       ELSE /\ output' = Written(all_events)
            /\ writes' = writes + 1
            /\ pc' = "done"
  /\ UNCHANGED <<exc, run, cloned>>
  /\ UNCHANGED loopVars /\ UNCHANGED histVars

\* A second run of main over a repository whose sole revision of the file
\* is the output of the first run (lines 88-102 of that run).
Refeed ==
  /\ pc = "done"
  /\ run = 1
  /\ run' = 2
  /\ prevStore' = all_events
  /\ commits' = GetFileCommits(Text(<<1>>))
  /\ todo' = ProcessingOrder(GetFileCommits(Text(<<1>>)))
  /\ all_events' = <<>>
  /\ n_unique' = 0 /\ n_unique_last' = 0
  /\ n_skipped' = 0 /\ n_skipped_last' = 0
  /\ n_lines' = 0
  /\ readLog' = <<>> /\ absent' = {}
  /\ nonblank' = 0 /\ blanks' = 0 /\ parseFailures' = 0
  /\ ledger' = <<>>
  /\ log' = Text(<<1>>)
  /\ pc' = "loop"
  /\ UNCHANGED <<exc, cloned, commit, content_by_line, idx, output, writes>>

Next ==
  \/ CheckRepoExists
  \/ CloneSsh
  \/ CloneHttps
  \/ ListCommits
  \/ NextCommit
  \/ ProcessLine
  \/ EndCommit
  \/ Finish
  \/ Refeed

Spec == Init /\ [][Next]_vars

----------------------------------------------------------------------------
\* Where the run stands.
Ended == pc \in {"done", "exit1_clone", "exit1_empty", "crash"}
BetweenRevisions == pc \in {"loop", "finish", "done", "exit1_empty"}

\* The ledger entry of a record's key, and "met strictly before".
Entry(event) == ledger[CHOOSE i \in 1..Len(ledger) : ledger[i].key = RecordKey(event)]
MetBefore(e1, e2) == e1.rev < e2.rev \/ (e1.rev = e2.rev /\ e1.line < e2.line)
Holders(key) == {i \in 1..Len(all_events) : RecordKey(all_events[i].event) = key}
RECURSIVE Repeats(_)
Repeats(ldg) == IF ldg = <<>> THEN 0 ELSE (Head(ldg).seen - 1) + Repeats(Tail(ldg))

\* C1: whenever two or more parsed records share a key, the store holds
\* exactly one record for that key and it is the first one met; every later
\* record with a key already met has added exactly one to n_skipped; and the
\* file, once written, holds that first record for the key.
DedupFirstWins ==
  /\ \A i \in 1..Len(ledger) :
        ledger[i].seen >= 2 =>
          /\ Cardinality(Holders(ledger[i].key)) = 1
          /\ \A h \in Holders(ledger[i].key) : all_events[h].event = ledger[i].event
          /\ pc = "done" =>
                Cardinality({o \in 1..Len(output) :
                    JsonLoads(output[o]).dict = ledger[i].event}) = 1
  /\ n_skipped = Repeats(ledger)

DedupWitness ==
  /\ run = 1 /\ pc = "done"
  /\ \E i \in 1..Len(ledger) :
        /\ ledger[i].seen >= 2
        /\ ledger[i].event = JsonLoads(LnA2).dict
  /\ Len(ledger) = 2
  /\ n_skipped = 1

\* C2: revisions are read oldest first; a stored record met strictly before
\* another stands before it in the store; and the file written holds the
\* stored records, all of them, in the store's order.
OrderPreserved ==
  /\ \A i, j \in 1..Len(readLog) : i < j => readLog[i] < readLog[j]
  /\ \A i, j \in 1..Len(all_events) :
        MetBefore(Entry(all_events[i].event), Entry(all_events[j].event)) => i < j
  /\ pc = "done" =>
        /\ Len(output) = Len(all_events)
        /\ \A i \in 1..Len(output) : JsonLoads(output[i]).dict = all_events[i].event
        /\ \A i, j \in 1..Len(output) :
              MetBefore(Entry(JsonLoads(output[i]).dict), Entry(JsonLoads(output[j]).dict))
                => i < j

OrderWitness ==
  /\ run = 1 /\ pc = "done"
  /\ Len(output) = 2
  /\ Len(readLog) = 2
  /\ Entry(all_events[1].event).rev < Entry(all_events[2].event).rev

\* C3: at the end of every run and after every processed revision,
\* n_unique + n_skipped + parse failures is the number of non-blank lines
\* the line loop was given.
AccountingIdentity ==
  (BetweenRevisions \/ Ended) => n_unique + n_skipped + parseFailures = nonblank

\* C4: no line, whatever its text, ends the run: the loop never stops on an
\* exception raised while a line is handled.
LineFailuresAbsorbed == pc # "crash" /\ exc = ""

\* C5: no revision is read twice, a revision whose snapshot is absent files
\* no record, and a run that skipped a revision and gathered at least one
\* record from the others ends with the file written.
MissingSnapshotSkipped ==
  /\ \A i, j \in 1..Len(readLog) : i # j => readLog[i] # readLog[j]
  /\ \A i \in 1..Len(ledger) : ledger[i].rev \notin absent
  /\ (Ended /\ absent # {} /\ all_events # <<>>) => (pc = "done" /\ writes = run)

\* C6: a run ends either failed with nothing written, because both clone
\* attempts failed or because the store is empty after the last revision,
\* or done with the file written once, one line per stored record, after the
\* last revision; while revisions are in hand the file is not written.
ExitConditions ==
  /\ Ended =>
        \/ /\ pc = "exit1_clone" /\ cloned = <<"ssh", "https">> /\ writes = 0
        \/ /\ pc = "exit1_empty" /\ all_events = <<>> /\ todo = <<>> /\ writes = run - 1
        \/ /\ pc = "done" /\ all_events # <<>> /\ todo = <<>> /\ writes = run
            /\ Len(output) = Len(all_events)
  /\ pc \in {"loop", "lines"} => writes = run - 1

\* C7: blank lines are not counted: between revisions n_lines is the number
\* of non-blank lines of the snapshots read.
BlankLinesNotCounted == BetweenRevisions => n_lines = nonblank

\* C8: the run over the output of a run that ended well rebuilds the same
\* store, admits every line as unique, rejects none and fails to parse none.
RefeedIdentical ==
  run = 2 =>
    /\ pc \notin {"crash", "exit1_empty", "exit1_clone"}
    /\ n_skipped = 0 /\ parseFailures = 0 /\ blanks = 0
    /\ pc \in {"finish", "done"} =>
          /\ all_events = prevStore
          /\ n_unique = Len(output)
          /\ nonblank = Len(output)

RefeedWitness ==
  /\ run = 2 /\ pc = "done"
  /\ Len(prevStore) = 2
  /\ prevStore[1].event = JsonLoads(LnA2).dict
  /\ prevStore[2].event = JsonLoads(LnB1).dict
  /\ output[1] # LnA2 /\ output[2] # LnB1

\* C9: when the history query fails or returns nothing, no revision is
\* found, no snapshot is read, the store stays empty and the run ends on
\* the empty result.
EmptyHistory ==
  (run = 1 /\ pc \notin {"check", "clone_ssh", "clone_https", "list", "exit1_clone"}
     /\ log \in {None, Text(<<>>)}) =>
    /\ Len(commits) = 0
    /\ readLog = <<>>
    /\ all_events = <<>>
    /\ pc \in {"loop", "finish", "exit1_empty"}

\* The store has n_unique entries with pairwise different keys.
StoreInStep ==
  /\ Len(all_events) = n_unique
  /\ \A i, j \in 1..Len(all_events) :
        i # j => ~KeyEq(all_events[i].key, all_events[j].key)
\* A step of the loop leaves the store alone or appends one entry, keeping
\* what is stored in place, and lowers no counter.
LoopStep ==
  pc \in {"loop", "lines"} =>
    /\ \/ all_events' = all_events
       \/ /\ Len(all_events') = Len(all_events) + 1
          /\ SubSeq(all_events', 1, Len(all_events)) = all_events
    /\ n_unique' >= n_unique
    /\ n_skipped' >= n_skipped
    /\ n_lines' >= n_lines
\* C10: the store has n_unique entries with pairwise different keys; a step
\* of the loop leaves it alone or appends one entry, keeping what is stored
\* in place; and no counter goes down.
StoreAppendOnly == []StoreInStep /\ [][LoopStep]_vars

AppendWitness ==
  /\ pc = "lines"
  /\ n_unique = 2
  /\ n_skipped = 1
  /\ n_lines = 3

====
